---------------------------- MODULE Spec2Model ----------------------------
(***************************************************************************)
(* Model of src/Dashboard.py: a Streamlit script that is re-executed from  *)
(* top to bottom on every user interaction.  One execution is              *)
(*   load_data (memoized by st.cache_data) -> stop if the table is empty   *)
(*   -> preprocess_data -> sidebar filters and mask -> tabs.               *)
(* Tables are sequences of records, one record per row; a missing cell is  *)
(* NaN in a numeric column and NA in a text column.                        *)
(***************************************************************************)
EXTENDS Integers, Sequences, FiniteSets, TLC

(***************************************************************************)
(* Bounds of the model.                                                    *)
(***************************************************************************)
\* most rows one Store has in data/train.csv
MaxPerStore == 9
\* most rows a minor Store has in the tables drawn for the median
MaxMinor == 2
\* most executions of the script in one session
MaxRuns == 2

(***************************************************************************)
(* Cell values.                                                            *)
(***************************************************************************)
\* a missing numeric cell (every numeric value of the model is >= 0)
NaN == -1
\* a missing text cell
NA == "<NA>"

\* the Stores the drawn files speak of
StoreIds == {1, 2, 3}

\* Sales of Store s on day d in the drawn files: distinct per (Store, day)
SalesOf(s, d) == 100 * s + 10 * d

\* Customers of Store s on day d in the drawn files
CustomersOf(s, d) == 10 * s + d

\* range(1, 8): the lags preprocess_data creates
LagsMutantSix == 1..6

Lags == 1..7

\* 2015-01-01, the day numbered 1: the drawn dates are days of January 2015
FirstDay == 1

(***************************************************************************)
(* The two source files.  A file is [status, rows]: status "ok", "absent"  *)
(* (open fails with FileNotFoundError) or "unreadable" (open or parse      *)
(* fails with another exception); rows are its records in file order.      *)
(***************************************************************************)
FileStatus == {"ok", "absent", "unreadable"}

\* the orders in which a drawn data/train.csv lists its rows
Layouts == {"date_desc", "date_asc", "store_date_asc", "odd_even"}

\* the day listed j-th among the days 1..MaxPerStore under a layout;
\* "date_desc" is the order of the published file, newest day first
DayAt(layout, j) ==
    CASE layout = "date_desc" -> MaxPerStore + 1 - j
      [] layout = "odd_even"  -> IF j <= ((MaxPerStore + 1) \div 2)
                                 THEN 2 * j - 1
                                 ELSE 2 * (j - ((MaxPerStore + 1) \div 2))
      [] OTHER                -> j

\* the i-th (Store, day) of the grid StoreIds x days under a layout: Store
\* by Store under "store_date_asc", else day by day with the Stores ascending
GridCell(layout, i) ==
    LET stores == Cardinality(StoreIds)
    IN  IF layout = "store_date_asc"
        THEN <<((i - 1) \div MaxPerStore) + 1, ((i - 1) % MaxPerStore) + 1>>
        ELSE <<((i - 1) % stores) + 1, DayAt(layout, ((i - 1) \div stores) + 1)>>

\* an anomaly of data/train.csv: one cell of the row (store, day) is empty
NoAnomaly == [kind |-> "none", store |-> 0, day |-> 0]
Anomalies ==
    {NoAnomaly} \cup
    [kind : {"customers", "holiday"}, store : {1}, day : {2, 8}]

\* the row of data/train.csv for Store s on day d
TrainRow(s, d, anomaly) ==
    LET hit == anomaly.store = s /\ anomaly.day = d
    IN  [Store        |-> s,
         Date         |-> d,
         Sales        |-> SalesOf(s, d),
         Customers    |-> IF hit /\ anomaly.kind = "customers"
                          THEN NaN ELSE CustomersOf(s, d),
         StateHoliday |-> IF hit /\ anomaly.kind = "holiday" THEN NA
                          ELSE IF d = FirstDay THEN "a" ELSE "0"]

\* data/train.csv with n[s] consecutive days of each Store s, in a layout
TrainRows(n, layout, anomaly) ==
    LET grid  == [i \in 1..(Cardinality(StoreIds) * MaxPerStore) |->
                     GridCell(layout, i)]
        order == SelectSeq(grid, LAMBDA c : c[2] <= n[c[1]])
    IN  [i \in 1..Len(order) |-> TrainRow(order[i][1], order[i][2], anomaly)]

\* the attributes one row of data/store.csv gives a Store
ProfileA ==
    [StoreType |-> "a", Assortment |-> "a", CompetitionDistance |-> 10,
     CompetitionOpenSinceMonth |-> "9", PromoInterval |-> "Jan,Apr,Jul,Oct"]
ProfileC ==
    [StoreType |-> "c", Assortment |-> "c", CompetitionDistance |-> 30,
     CompetitionOpenSinceMonth |-> "11", PromoInterval |-> "Feb,May,Aug,Nov"]
ProfileFar ==
    [StoreType |-> "d", Assortment |-> "c", CompetitionDistance |-> 80,
     CompetitionOpenSinceMonth |-> "9", PromoInterval |-> "Jan,Apr,Jul,Oct"]
\* no CompetitionDistance
ProfileNoDistance ==
    [StoreType |-> "a", Assortment |-> "c", CompetitionDistance |-> NaN,
     CompetitionOpenSinceMonth |-> "9", PromoInterval |-> "Jan,Apr,Jul,Oct"]
\* a Store outside Promo2: no PromoInterval
ProfileNoPromo ==
    [StoreType |-> "d", Assortment |-> "a", CompetitionDistance |-> 30,
     CompetitionOpenSinceMonth |-> "9", PromoInterval |-> NA]
\* no CompetitionOpenSinceMonth
ProfileNoOpening ==
    [StoreType |-> "b", Assortment |-> "a", CompetitionDistance |-> 10,
     CompetitionOpenSinceMonth |-> "", PromoInterval |-> "Jan,Apr,Jul,Oct"]
\* a CompetitionOpenSinceMonth that is not a number
ProfileBadOpening ==
    [StoreType |-> "b", Assortment |-> "c", CompetitionDistance |-> 10,
     CompetitionOpenSinceMonth |-> "x", PromoInterval |-> "Jan,Apr,Jul,Oct"]

CompleteProfiles == {ProfileA, ProfileC, ProfileFar}
StoreProfiles ==
    CompleteProfiles \cup
    {ProfileNoDistance, ProfileNoPromo, ProfileNoOpening, ProfileBadOpening}

\* what data/store.csv holds for one Store: no row, one row, or two rows
ProfileChoices ==
    {<<>>} \cup {<<p>> : p \in StoreProfiles} \cup {<<ProfileA, ProfileC>>}

\* the row of data/store.csv giving Store s the attributes p
StoreRow(s, p) == [Store |-> s] @@ p

\* data/store.csv holding the rows entries[s] of each Store s, Stores ascending
RECURSIVE StoreRowsFrom(_, _)
StoreRowsFrom(s, entries) ==
    IF s \notin StoreIds THEN <<>>
    ELSE [i \in 1..Len(entries[s]) |-> StoreRow(s, entries[s][i])]
         \o StoreRowsFrom(s + 1, entries)
StoreRows(entries) == StoreRowsFrom(1, entries)

(***************************************************************************)
(* load_data: pd.merge(df_data, df_stores, on='Store', how='left').        *)
(***************************************************************************)
\* the store attributes of a transactions row that matches no store row
NoAttributes ==
    [StoreType |-> NA, Assortment |-> NA, CompetitionDistance |-> NaN,
     CompetitionOpenSinceMonth |-> NA, PromoInterval |-> NA]

\* the attribute columns of a store row (every column but the key)
AttributesOf(sr) ==
    [StoreType |-> sr.StoreType, Assortment |-> sr.Assortment,
     CompetitionDistance |-> sr.CompetitionDistance,
     CompetitionOpenSinceMonth |->
         IF sr.CompetitionOpenSinceMonth = "" THEN NA
         ELSE sr.CompetitionOpenSinceMonth,
     PromoInterval |-> sr.PromoInterval]

\* the joined rows of one transactions row: one per store row with its
\* Store, in store-file order, or a single row without attributes
JoinRow(tr, stores) ==
    LET hits == SelectSeq(stores, LAMBDA sr : sr.Store = tr.Store)
    IN  IF hits = <<>> THEN <<tr @@ NoAttributes>>
        ELSE [i \in 1..Len(hits) |-> tr @@ AttributesOf(hits[i])]

\* the joined rows of the first n transactions rows, transactions order kept
RECURSIVE MergeFirst(_, _, _)
MergeFirst(data, stores, n) ==
    IF n = 0 THEN <<>>
    ELSE MergeFirst(data, stores, n - 1) \o JoinRow(data[n], stores)

\* pd.merge(data, stores, on='Store', how='left')
MergeLeftMutantInner(data, stores) ==
    SelectSeq(MergeFirst(data, stores, Len(data)),
              LAMBDA r : \E k \in 1..Len(stores) : stores[k].Store = r.Store)

MergeLeft(data, stores) == MergeFirst(data, stores, Len(data))

(***************************************************************************)
(* preprocess_data, step by step.                                          *)
(***************************************************************************)
\* the decimal numbers the drawn files write in CompetitionOpenSinceMonth
NumericLiteral == ("9" :> 9) @@ ("11" :> 11)

\* pd.to_numeric(column, errors='coerce') on one cell
ToNumeric(cell) ==
    IF cell \in DOMAIN NumericLiteral THEN NumericLiteral[cell] ELSE NaN

\* seq in ascending order: element i goes to the place after the smaller
\* elements and the equal elements before it
SortValues(seq) ==
    LET place(i) == 1 + Cardinality({j \in 1..Len(seq) :
                         seq[j] < seq[i] \/ (seq[j] = seq[i] /\ j < i)})
    IN  [p \in 1..Len(seq) |-> seq[CHOOSE i \in 1..Len(seq) : place(i) = p]]

\* the non-missing CompetitionDistance cells of a table, in row order
DistancesOf(t) ==
    LET present == SelectSeq(t, LAMBDA r : r.CompetitionDistance # NaN)
    IN  [i \in 1..Len(present) |-> present[i].CompetitionDistance]

\* Series.median(): the middle of the sorted non-missing values, the mean
\* of the two middle ones when their number is even, NaN when there is none
MedianMutantLower(t) ==
    LET v == SortValues(DistancesOf(t))
        n == Len(v)
    IN  IF n = 0 THEN NaN ELSE v[(n + 1) \div 2]

Median(t) ==
    LET v == SortValues(DistancesOf(t))
        n == Len(v)
    IN  IF n = 0 THEN NaN
        ELSE IF n % 2 = 1 THEN v[(n + 1) \div 2]
        ELSE (v[n \div 2] + v[n \div 2 + 1]) \div 2

\* Series.fillna(value) on one numeric cell; filling with NaN fills nothing
FillNaN(cell, value) == IF cell = NaN THEN value ELSE cell

\* Series.fillna('None') on one text cell
FillNA(cell) == IF cell = NA THEN "None" ELSE cell

\* Series.astype(str) on one text cell: a missing cell becomes the text 'nan'
AsStr(cell) == IF cell = NA THEN "nan" ELSE cell

\* Date.dt.dayofweek, Monday = 0: 2015-01-01 is a Thursday
DayOfWeek(d) == ((d - FirstDay) + 3) % 7

\* Date.dt.isocalendar().week for the days of January 2015
WeekOfYear(d) == (((d - FirstDay) + 3) \div 7) + 1

\* lambda x: 1 if x >= 5 else 0
IsWeekend(dow) == IF dow >= 5 THEN 1 ELSE 0

\* lines 77-94 on one row: coercion, the two fills, the calendar columns,
\* StateHoliday as text.  inplace says whether df[col].fillna(..., inplace=
\* True) reaches df: it fills a temporary instead under copy-on-write
PrepareRow(r, median, inplace) ==
    [Store        |-> r.Store,
     Date         |-> r.Date,
     Sales        |-> r.Sales,
     Customers    |-> r.Customers,
     StateHoliday |-> AsStr(r.StateHoliday),
     StoreType    |-> r.StoreType,
     Assortment   |-> r.Assortment,
     CompetitionDistance |->
         IF inplace THEN FillNaN(r.CompetitionDistance, median)
         ELSE r.CompetitionDistance,
     CompetitionOpenSinceMonth |-> ToNumeric(r.CompetitionOpenSinceMonth),
     PromoInterval |->
         IF inplace THEN FillNA(r.PromoInterval) ELSE r.PromoInterval,
     Year         |-> 2015,
     Month        |-> 1,
     DayOfWeek    |-> DayOfWeek(r.Date),
     WeekOfYear   |-> WeekOfYear(r.Date),
     IsWeekend    |-> IsWeekend(DayOfWeek(r.Date))]

\* the table after lines 77-94
PrepareColumns(t, inplace) ==
    LET median == Median(t)
    IN  [i \in 1..Len(t) |-> PrepareRow(t[i], median, inplace)]

\* df.groupby('Store')['Sales'].shift(k) at row i: the Sales of the k-th
\* row before row i among the rows of the same Store, in the order the
\* table has; NaN when fewer than k such rows precede it
GroupShift(t, i, k) ==
    LET before == {j \in 1..(i - 1) : t[j].Store = t[i].Store}
    IN  IF Cardinality(before) < k THEN NaN
        ELSE LET j == CHOOSE j \in before :
                          Cardinality({m \in before : m >= j}) = k
             IN  t[j].Sales

\* the loop of lines 97-98: the columns Sales_lag_1 .. Sales_lag_7, held
\* as one function of the lag
AddLags(t) ==
    [i \in 1..Len(t) |->
        t[i] @@ [Sales_lag |-> [k \in Lags |-> GroupShift(t, i, k)]]]

\* whether a row holds a missing cell in a column other than the lags
HasMissingCell(r) ==
    \/ r.Store = NaN \/ r.Date = NaN \/ r.Sales = NaN \/ r.Customers = NaN
    \/ r.StateHoliday = NA \/ r.StoreType = NA \/ r.Assortment = NA
    \/ r.CompetitionDistance = NaN \/ r.CompetitionOpenSinceMonth = NaN
    \/ r.PromoInterval = NA

\* whether a row holds a missing lag
HasMissingLag(r) == \E k \in Lags : r.Sales_lag[k] = NaN

\* df.dropna(): the rows without any missing cell, order kept
DropNaMutantLagsOnly(t) == SelectSeq(t, LAMBDA r : ~HasMissingLag(r))

DropNa(t) == SelectSeq(t, LAMBDA r : ~HasMissingCell(r) /\ ~HasMissingLag(r))

\* preprocess_data(df)
PreprocessData(t, inplace) == DropNa(AddLags(PrepareColumns(t, inplace)))

(***************************************************************************)
(* The sidebar filters and the mask (lines 107-148).                       *)
(***************************************************************************)
\* Series.unique() of a column, as a set
UniqueOf(t, col) == {t[i][col] : i \in 1..Len(t)}

\* df['Date'].min() and df['Date'].max(): NaN (NaT) on a table without rows
MinDate(t) ==
    IF t = <<>> THEN NaN
    ELSE CHOOSE d \in UniqueOf(t, "Date") : \A e \in UniqueOf(t, "Date") : d <= e
MaxDate(t) ==
    IF t = <<>> THEN NaN
    ELSE CHOOSE d \in UniqueOf(t, "Date") : \A e \in UniqueOf(t, "Date") : d >= e

\* what st.sidebar.date_input hands back for a range: the start alone while
\* the user has picked only it, else start and end with start <= end.  The
\* days on offer run from the day before the first to the day after the last.
\* Given NaT defaults (a table without rows) it hands them back or no date
DateInputValues(lo, hi) ==
    IF lo = NaN THEN {<<lo, hi>>, <<>>}
    ELSE LET days == (lo - 1)..(hi + 1)
         IN  {<<lo>>} \cup {w \in days \X days : w[1] <= w[2]}

\* Series.isin(values) on one cell
IsInMutantEmptyIsAll(cell, values) == values = {} \/ cell \in values

IsIn(cell, values) == cell \in values

\* the upper date test of line 143 on one cell; a test against NaT is false
DateAtMost(cell, bound) == bound # NaN /\ cell <= bound

\* the lower date test of line 142 on one cell
DateAtLeast(cell, bound) == bound # NaN /\ cell >= bound

\* lines 140-146: one boolean per row of the table
Mask(t, stores, dates, types, assortments) ==
    [i \in 1..Len(t) |->
        /\ IsIn(t[i].Store, stores)
        /\ DateAtLeast(t[i].Date, dates[1])
        /\ DateAtMost(t[i].Date, dates[2])
        /\ IsIn(t[i].StoreType, types)
        /\ IsIn(t[i].Assortment, assortments)]

\* the rows among the first n whose mask entry is true, order kept
RECURSIVE LocFirst(_, _, _)
LocFirst(t, mask, n) ==
    IF n = 0 THEN <<>>
    ELSE LocFirst(t, mask, n - 1) \o (IF mask[n] THEN <<t[n]>> ELSE <<>>)

\* df.loc[mask]
Loc(t, mask) == LocFirst(t, mask, Len(t))

\* the sum of a numeric column over the first n rows
RECURSIVE SumFirst(_, _, _)
SumFirst(t, col, n) ==
    IF n = 0 THEN 0 ELSE SumFirst(t, col, n - 1) + t[n][col]

\* Series.sum() of a numeric column
SumOf(t, col) == SumFirst(t, col, Len(t))

(***************************************************************************)
(* State.                                                                  *)
(***************************************************************************)
VARIABLES
    trainFile,           \* data/train.csv
    storeFile,           \* data/store.csv
    chainedInplace,      \* whether df[col].fillna(..., inplace=True) fills df
    cache,               \* st.cache_data's entry for load_data()
    pc,                  \* where the script is
    runs,                \* executions of the script started so far
    loaderRuns,          \* executions of load_data's body so far
    preparatorRuns,      \* executions of preprocess_data so far
    df,                  \* the script's df
    errorShown,          \* the file st.error names on the page, "" if none
    exception,           \* the exception that ended the run, "" if none
    selected_store,
    selected_date,
    selected_store_type,
    selected_assortment,
    filtered_df,
    metrics,             \* what the tabs computed from filtered_df
    firstPrepared        \* the table the first preprocess_data returned

vars == <<trainFile, storeFile, chainedInplace, cache, pc, runs, loaderRuns,
          preparatorRuns, df, errorShown, exception, selected_store,
          selected_date, selected_store_type, selected_assortment,
          filtered_df, metrics, firstPrepared>>

files == <<trainFile, storeFile, chainedInplace>>
selection == <<selected_store, selected_date, selected_store_type,
               selected_assortment>>

NoCache == [hit |-> FALSE, value |-> <<>>, message |-> ""]
NoMetrics == [total_sales |-> 0, total_customers |-> 0, slider |-> <<>>]

\* a session before the script has run, over the given files
Session(tf, sf, inplace) ==
    /\ trainFile = tf
    /\ storeFile = sf
    /\ chainedInplace = inplace
    /\ cache = NoCache
    /\ pc = "idle"
    /\ runs = 0
    /\ loaderRuns = 0
    /\ preparatorRuns = 0
    /\ df = <<>>
    /\ errorShown = ""
    /\ exception = ""
    /\ selected_store = {}
    /\ selected_date = <<>>
    /\ selected_store_type = {}
    /\ selected_assortment = {}
    /\ filtered_df = <<>>
    /\ metrics = NoMetrics
    /\ firstPrepared = <<>>

(***************************************************************************)
(* The files the sessions are drawn over.                                  *)
(***************************************************************************)
OkFile(rows) == [status |-> "ok", rows |-> rows]
MissingFiles == {[status |-> st, rows |-> <<>>] : st \in {"absent", "unreadable"}}

\* the row counts n1, n2, n3 of Stores 1, 2, 3
Counts(n1, n2, n3) == (1 :> n1) @@ (2 :> n2) @@ (3 :> n3)

\* the store rows e1, e2, e3 of Stores 1, 2, 3
Entries(e1, e2, e3) == (1 :> e1) @@ (2 :> e2) @@ (3 :> e3)

\* the row counts of the second Store: none, a few, or as many as can be
MinorCounts == (0..MaxMinor) \cup {MaxPerStore}

\* data/train.csv of two Stores: every row count of the first, every layout
TwoStoreTrainFiles ==
    {OkFile(TrainRows(Counts(n1, n2, 0), layout, NoAnomaly)) :
        n1 \in 0..MaxPerStore, n2 \in MinorCounts, layout \in Layouts}

\* the same with one empty cell
AnomalousTrainFiles ==
    {OkFile(TrainRows(Counts(n1, n2, 0), layout, anomaly)) :
        n1 \in 0..MaxPerStore, n2 \in MinorCounts, layout \in Layouts,
        anomaly \in Anomalies \ {NoAnomaly}}

\* data/store.csv of two Stores: every choice of rows for the first
TwoStoreStoreFiles ==
    {OkFile(StoreRows(Entries(e1, e2, <<>>))) :
        e1 \in ProfileChoices,
        e2 \in {<<>>, <<ProfileC>>, <<ProfileNoDistance>>, <<ProfileA, ProfileC>>}}

\* two Stores, every row count, layout and store row; or one empty cell
TwoStoreFiles ==
    (TwoStoreTrainFiles \X TwoStoreStoreFiles) \cup
    (AnomalousTrainFiles \X
        {OkFile(StoreRows(Entries(<<ProfileA>>, <<ProfileC>>, <<>>)))})

\* a Store without CompetitionDistance beside two minor Stores
MedianFiles ==
    {OkFile(TrainRows(Counts(n1, n2, n3), layout, NoAnomaly)) :
        n1 \in (Cardinality(Lags) + 1)..MaxPerStore,
        n2 \in 0..MaxMinor, n3 \in 0..MaxMinor, layout \in Layouts}
    \X
    {OkFile(StoreRows(Entries(<<ProfileNoDistance>>, <<p2>>, <<p3>>))) :
        p2 \in StoreProfiles, p3 \in CompleteProfiles \cup {ProfileNoDistance}}

\* a file is absent or unreadable
BrokenFiles ==
    {<<tf, sf>> : tf \in MissingFiles \cup {OkFile(TrainRows(Counts(1, 0, 0), "date_asc", NoAnomaly))},
                  sf \in MissingFiles \cup {OkFile(StoreRows(Entries(<<ProfileA>>, <<>>, <<>>)))}}

\* the files of the dashboard sessions: Stores with enough rows to keep some
DashboardFiles ==
    {<<OkFile(TrainRows(Counts(n1, n2, 0), layout, NoAnomaly)),
       OkFile(StoreRows(Entries(<<p1>>, <<ProfileC>>, <<>>)))>> :
        n1 \in {0, MaxPerStore}, n2 \in {0, MaxPerStore - 1, MaxPerStore},
        layout \in Layouts,
        p1 \in {ProfileA, ProfileNoDistance, ProfileNoPromo}}

(***************************************************************************)
(* The script, one action per step of an execution.                        *)
(***************************************************************************)
\* a user interaction (or the first page load) starts an execution: the
\* script's variables are fresh, the cache and the counters are the session's
Rerun ==
    /\ pc \in {"idle", "done", "stopped", "failed"}
    /\ runs < MaxRuns
    /\ runs' = runs + 1
    /\ pc' = "load"
    /\ df' = <<>>
    /\ errorShown' = ""
    /\ exception' = ""
    /\ selected_store' = {}
    /\ selected_date' = <<>>
    /\ selected_store_type' = {}
    /\ selected_assortment' = {}
    /\ filtered_df' = <<>>
    /\ metrics' = NoMetrics
    /\ UNCHANGED <<files, cache, loaderRuns, preparatorRuns, firstPrepared>>

\* what the body of load_data does: [raised, value, message].  Only
\* FileNotFoundError is caught; the first file that fails decides
LoadDataBody ==
    CASE trainFile.status = "absent" ->
             [raised |-> "", value |-> <<>>, message |-> "data/train.csv"]
      [] trainFile.status = "unreadable" ->
             [raised |-> "PermissionError", value |-> <<>>, message |-> ""]
      [] storeFile.status = "absent" ->
             [raised |-> "", value |-> <<>>, message |-> "data/store.csv"]
      [] storeFile.status = "unreadable" ->
             [raised |-> "PermissionError", value |-> <<>>, message |-> ""]
      [] OTHER ->
             [raised |-> "", message |-> "",
              value |-> MergeLeft(trainFile.rows, storeFile.rows)]

\* whether st.cache_data answers the call from its entry
CacheHit == cache.hit

\* df = load_data() (line 69): a cached call hands out a copy of the stored
\* value and replays its st.error; otherwise the body runs and, unless it
\* raises, its result is stored
LoadData ==
    /\ pc = "load"
    /\ IF CacheHit
       THEN /\ df' = cache.value
            /\ errorShown' = cache.message
            /\ pc' = "check"
            /\ UNCHANGED <<cache, loaderRuns, exception>>
       ELSE LET out == LoadDataBody
            IN  /\ loaderRuns' = loaderRuns + 1
                /\ IF out.raised # ""
                   THEN /\ exception' = out.raised
                        /\ pc' = "failed"
                        /\ UNCHANGED <<df, errorShown, cache>>
                   ELSE /\ df' = out.value
                        /\ errorShown' = out.message
                        /\ cache' = [hit |-> TRUE, value |-> out.value,
                                     message |-> out.message]
                        /\ pc' = "check"
                        /\ UNCHANGED exception
    /\ UNCHANGED <<files, runs, preparatorRuns, selection, filtered_df,
                   metrics, firstPrepared>>

\* if df.empty: st.stop() (lines 70-71)
StopIfEmpty ==
    /\ pc = "check"
    /\ pc' = IF df = <<>> THEN "stopped" ELSE "preprocess"
    /\ UNCHANGED <<files, cache, runs, loaderRuns, preparatorRuns, df,
                   errorShown, exception, selection, filtered_df, metrics,
                   firstPrepared>>

\* the cache entry after preprocess_data changed df in place: df is the
\* copy load_data() handed out, so the entry is as it was
CacheAfterInplaceMutantShared(entry, before, after) ==
    [entry EXCEPT !.value =
        SelectSeq(before, LAMBDA r : \E i \in 1..Len(after) :
                      after[i].Store = r.Store /\ after[i].Date = r.Date)]

CacheAfterInplace(entry, before, after) == entry

\* df = preprocess_data(df) (line 105)
Preprocess ==
    /\ pc = "preprocess"
    /\ df' = PreprocessData(df, chainedInplace)
    /\ preparatorRuns' = preparatorRuns + 1
    /\ firstPrepared' = IF preparatorRuns = 0 THEN df' ELSE firstPrepared
    /\ cache' = CacheAfterInplace(cache, df, df')
    /\ pc' = "filters"
    /\ UNCHANGED <<files, runs, loaderRuns, errorShown, exception, selection,
                   filtered_df, metrics>>

\* lines 110-148: each toggle either selects everything on offer or leaves
\* the choice to its widget; then the mask and filtered_df.  A date range
\* holding fewer than two dates makes selected_date[1] raise IndexError
ApplyFilters ==
    /\ pc = "filters"
    /\ \E allStores \in BOOLEAN, allDates \in BOOLEAN, allTypes \in BOOLEAN,
          allAssortments \in BOOLEAN :
       \E stores \in (IF allStores THEN {UniqueOf(df, "Store")}
                      ELSE SUBSET UniqueOf(df, "Store")),
          dates \in (IF allDates THEN {<<MinDate(df), MaxDate(df)>>}
                     ELSE DateInputValues(MinDate(df), MaxDate(df))),
          types \in (IF allTypes THEN {UniqueOf(df, "StoreType")}
                     ELSE SUBSET UniqueOf(df, "StoreType")),
          assortments \in (IF allAssortments THEN {UniqueOf(df, "Assortment")}
                           ELSE SUBSET UniqueOf(df, "Assortment")) :
          /\ selected_store' = stores
          /\ selected_date' = dates
          /\ selected_store_type' = types
          /\ selected_assortment' = assortments
          /\ IF Len(dates) < 2
             THEN /\ exception' = "IndexError"
                  /\ pc' = "failed"
                  /\ UNCHANGED filtered_df
             ELSE /\ filtered_df' =
                        Loc(df, Mask(df, stores, dates, types, assortments))
                  /\ pc' = "tabs"
                  /\ UNCHANGED exception
    /\ UNCHANGED <<files, cache, runs, loaderRuns, preparatorRuns, df,
                   errorShown, metrics, firstPrepared>>

\* the tabs (lines 152-329) read filtered_df: the sums of the first tab and
\* the arguments of the slider of the sixth (first, last, default)
RenderTabs ==
    /\ pc = "tabs"
    /\ metrics' = [total_sales     |-> SumOf(filtered_df, "Sales"),
                   total_customers |-> SumOf(filtered_df, "Customers"),
                   slider |-> <<1, Cardinality(UniqueOf(filtered_df, "Store")), 50>>]
    /\ pc' = "done"
    /\ UNCHANGED <<files, cache, runs, loaderRuns, preparatorRuns, df,
                   errorShown, exception, selection, filtered_df,
                   firstPrepared>>

(***************************************************************************)
(* Specifications.                                                         *)
(***************************************************************************)
\* the dashboard: sessions of up to MaxRuns executions
Init ==
    \E f \in DashboardFiles \cup BrokenFiles, inplace \in BOOLEAN :
        Session(f[1], f[2], inplace)

Next == Rerun \/ LoadData \/ StopIfEmpty \/ Preprocess \/ ApplyFilters \/ RenderTabs

Spec == Init /\ [][Next]_vars

\* loading and preparation alone: the first execution up to the filters,
\* over the wide families of files
InitPrep ==
    \E f \in TwoStoreFiles \cup MedianFiles \cup BrokenFiles, inplace \in BOOLEAN :
        Session(f[1], f[2], inplace)

FirstRun == runs = 0 /\ Rerun

NextPrep == FirstRun \/ LoadData \/ StopIfEmpty \/ Preprocess

SpecPrep == InitPrep /\ [][NextPrep]_vars

(***************************************************************************)
(* Properties.                                                             *)
(***************************************************************************)
\* the table load_data() returned in this session (the cache entry's value)
Joined == cache.value

\* df holds what preprocess_data returned in the current execution
Prepared == pc \in {"filters", "tabs", "done"}

\* both source files are there and readable
FilesOk == trainFile.status = "ok" /\ storeFile.status = "ok"

\* the number of rows of Store s in a table
RowsOf(t, s) == Cardinality({i \in 1..Len(t) : t[i].Store = s})

\* max(0, x)
AtLeastZero(x) == IF x > 0 THEN x ELSE 0

\* the joined rows a prepared or filtered row comes from
SourcesOf(r) ==
    {j \in 1..Len(Joined) :
        Joined[j].Store = r.Store /\ Joined[j].Date = r.Date}

\* whether the joined table has one row per Date for Store s
DatesAreDistinct(s) ==
    \A i, j \in 1..Len(Joined) :
        (Joined[i].Store = s /\ Joined[j].Store = s /\ i # j) =>
            Joined[i].Date # Joined[j].Date

\* C1: for every Store with at least 8 rows (one per Date) and every row
\* kept in the prepared table, Sales_lag_k (k = 1..7) is the Sales of the
\* row of the same Store that is k places earlier by Date, whatever the
\* order of the rows in the loaded table.
C1_LagIsChronological ==
    Prepared =>
        \A i \in 1..Len(df) : \A k \in 1..7 :
            (RowsOf(Joined, df[i].Store) >= 8 /\ DatesAreDistinct(df[i].Store)) =>
                \E q \in 1..Len(Joined) :
                    /\ Joined[q].Store = df[i].Store
                    /\ Joined[q].Date < df[i].Date
                    /\ Cardinality({p \in 1..Len(Joined) :
                           /\ Joined[p].Store = df[i].Store
                           /\ Joined[p].Date >= Joined[q].Date
                           /\ Joined[p].Date < df[i].Date}) = k
                    /\ df[i].Sales_lag[k] = Joined[q].Sales

\* C2 as stated: a Store with exactly N >= 1 joined rows has exactly
\* max(0, N-7) rows in the table preprocess_data returns.
C2_DropPolicy ==
    Prepared =>
        \A s \in StoreIds :
            RowsOf(Joined, s) >= 1 =>
                RowsOf(df, s) = AtLeastZero(RowsOf(Joined, s) - 7)

\* whether, after the fills of lines 77-94, no row of Store s has a missing
\* cell in a column other than the lags
StoreIsComplete(s) ==
    LET filled == PrepareColumns(Joined, chainedInplace)
    IN  \A i \in 1..Len(filled) :
            filled[i].Store = s => ~HasMissingCell(filled[i])

\* C2 amended: a Store with N >= 1 joined rows has at most max(0, N-7) rows
\* in the returned table, and exactly that many when none of its rows has a
\* missing cell left after the fills.
C2_DropPolicyAmended ==
    Prepared =>
        \A s \in StoreIds :
            RowsOf(Joined, s) >= 1 =>
                /\ RowsOf(df, s) <= AtLeastZero(RowsOf(Joined, s) - 7)
                /\ StoreIsComplete(s) =>
                       RowsOf(df, s) = AtLeastZero(RowsOf(Joined, s) - 7)

\* a complete Store keeps N-7 > 0 rows while another Store loses them all
C2_Witness ==
    /\ Prepared
    /\ \E s \in StoreIds :
           /\ StoreIsComplete(s)
           /\ RowsOf(Joined, s) >= 9
           /\ RowsOf(df, s) = RowsOf(Joined, s) - 7
    /\ \E s \in StoreIds :
           /\ RowsOf(Joined, s) >= 8
           /\ ~StoreIsComplete(s)
           /\ RowsOf(df, s) = 0

\* load_data() has returned the joined table of two readable files
Loaded == FilesOk /\ cache.hit

\* the joined rows of the transactions row i (its Store and Date)
JoinedOf(i) == SourcesOf(trainFile.rows[i])

\* the store rows with the Store of the transactions row i
MatchesOf(i) ==
    {k \in 1..Len(storeFile.rows) :
        storeFile.rows[k].Store = trainFile.rows[i].Store}

\* C5 as stated: for every pair of tables the joined table has exactly one
\* row per transactions row (hence as many rows as the transactions source),
\* a row without a match being kept with missing store attributes.
C5_JoinCompleteness ==
    Loaded =>
        /\ Len(Joined) = Len(trainFile.rows)
        /\ \A i \in 1..Len(trainFile.rows) : Cardinality(JoinedOf(i)) = 1

\* C5 amended: every transactions row has one joined row per store row with
\* its Store, and one with missing store attributes when there is none; so
\* exactly one when its Store is in at most one store row.  Every joined row
\* carries the transactions columns unchanged and comes in transactions
\* order.
C5_JoinCompletenessAmended ==
    Loaded =>
        /\ \A i \in 1..Len(trainFile.rows) :
               /\ Cardinality(JoinedOf(i)) =
                      IF MatchesOf(i) = {} THEN 1 ELSE Cardinality(MatchesOf(i))
               /\ MatchesOf(i) = {} =>
                      \A j \in JoinedOf(i) :
                          /\ Joined[j].StoreType = NA
                          /\ Joined[j].Assortment = NA
                          /\ Joined[j].CompetitionDistance = NaN
                          /\ Joined[j].CompetitionOpenSinceMonth = NA
                          /\ Joined[j].PromoInterval = NA
               /\ \A j \in JoinedOf(i) :
                      /\ Joined[j].Sales = trainFile.rows[i].Sales
                      /\ Joined[j].Customers = trainFile.rows[i].Customers
               /\ \A k \in MatchesOf(i) : \E j \in JoinedOf(i) :
                      /\ Joined[j].StoreType = storeFile.rows[k].StoreType
                      /\ Joined[j].Assortment = storeFile.rows[k].Assortment
                      /\ Joined[j].CompetitionDistance =
                             storeFile.rows[k].CompetitionDistance
                      /\ Joined[j].PromoInterval = storeFile.rows[k].PromoInterval
        /\ \A j \in 1..Len(Joined) : \E i \in 1..Len(trainFile.rows) : j \in JoinedOf(i)
        /\ \A i1, i2 \in 1..Len(trainFile.rows) :
               i1 < i2 => \A j1 \in JoinedOf(i1), j2 \in JoinedOf(i2) : j1 < j2

\* a transactions row without a match is kept beside one matched twice
C5_Witness ==
    /\ Loaded
    /\ \E i \in 1..Len(trainFile.rows) :
           MatchesOf(i) = {} /\ Cardinality(JoinedOf(i)) = 1
    /\ \E i \in 1..Len(trainFile.rows) :
           Cardinality(MatchesOf(i)) = 2 /\ Cardinality(JoinedOf(i)) = 2

\* C7: every row of the table preprocess_data returns has a value in every
\* column: the seven lags, CompetitionDistance, PromoInterval and the rest.
C7_Density ==
    Prepared =>
        \A i \in 1..Len(df) :
            /\ \A k \in 1..7 : df[i].Sales_lag[k] # NaN
            /\ df[i].CompetitionDistance # NaN
            /\ df[i].PromoInterval # NA
            /\ df[i].CompetitionOpenSinceMonth # NaN
            /\ df[i].StoreType # NA
            /\ df[i].Assortment # NA
            /\ df[i].StateHoliday # NA
            /\ df[i].Customers # NaN
            /\ df[i].Sales # NaN
            /\ df[i].Store # NaN
            /\ df[i].Date # NaN

\* rows are kept whose CompetitionDistance or PromoInterval was filled,
\* while rows with another missing cell are gone
C7_Witness ==
    /\ Prepared
    /\ \E i \in 1..Len(df) : \E j \in SourcesOf(df[i]) :
           Joined[j].CompetitionDistance = NaN
    /\ \E j \in 1..Len(Joined) :
           /\ RowsOf(Joined, Joined[j].Store) >= 8
           /\ RowsOf(df, Joined[j].Store) = 0

\* the non-missing CompetitionDistance cells of the joined table
DistanceCells == {j \in 1..Len(Joined) : Joined[j].CompetitionDistance # NaN}
CellsBelow(x) ==
    Cardinality({j \in DistanceCells : Joined[j].CompetitionDistance < x})
CellsAtMost(x) ==
    Cardinality({j \in DistanceCells : Joined[j].CompetitionDistance <= x})

\* whether m is the median of the non-missing CompetitionDistance cells of
\* the joined table, told by counting alone: the mean of the lower and the
\* upper middle value
IsJoinedMedian(m) ==
    \E ja \in DistanceCells, jb \in DistanceCells :
        LET a == Joined[ja].CompetitionDistance
            b == Joined[jb].CompetitionDistance
            n == Cardinality(DistanceCells)
        IN  /\ 2 * CellsBelow(a) < n /\ 2 * CellsAtMost(a) >= n
            /\ 2 * CellsBelow(b) <= n /\ 2 * CellsAtMost(b) > n
            /\ 2 * m = a + b

\* C8: every kept row whose CompetitionDistance was missing in the joined
\* table holds the median of the non-missing CompetitionDistance values of
\* the whole joined table, whatever the order of its rows.
C8_MedianFill ==
    Prepared =>
        \A i \in 1..Len(df) :
            (\E j \in SourcesOf(df[i]) : Joined[j].CompetitionDistance = NaN)
                => IsJoinedMedian(df[i].CompetitionDistance)

\* a kept row was filled with a median that is no value of the table: the
\* mean of two different middle values
C8_Witness ==
    /\ Prepared
    /\ \E i \in 1..Len(df) :
           /\ \E j \in SourcesOf(df[i]) : Joined[j].CompetitionDistance = NaN
           /\ \A j \in DistanceCells :
                  Joined[j].CompetitionDistance # df[i].CompetitionDistance

\* C3: with unchanged, readable source files the body of load_data and
\* preprocess_data each run at most once in a session, however many times
\* the script is executed.
C3_Memoization ==
    FilesOk => (loaderRuns <= 1 /\ preparatorRuns <= 1)

\* the files among the two that are absent or unreadable
FailingFiles ==
    (IF trainFile.status # "ok" THEN {"data/train.csv"} ELSE {}) \cup
    (IF storeFile.status # "ok" THEN {"data/store.csv"} ELSE {})

\* C4: whenever a source file is absent or unreadable, the execution shows
\* an error naming a failing file and stops before preprocess_data, the
\* mask or any tab; no exception escapes.
C4_LoadFailureHalts ==
    (FailingFiles # {} /\ pc \notin {"idle", "load"}) =>
        /\ pc \in {"check", "stopped"}
        /\ exception = ""
        /\ errorShown \in FailingFiles
        /\ df = <<>>

\* what the claim asks of a row r for the current selection
Selected(r) ==
    /\ r.Store \in selected_store
    /\ selected_date[1] <= r.Date
    /\ r.Date <= selected_date[2]
    /\ r.StoreType \in selected_store_type
    /\ r.Assortment \in selected_assortment

\* the script has computed filtered_df in the current execution
Filtered == pc \in {"tabs", "done"}

\* C6: a row of the prepared table is in filtered_df exactly when its Store
\* is selected, its Date lies between the two selected dates, both included,
\* and its StoreType and Assortment are selected; so an empty set for any
\* dimension leaves no row.
C6_MaskCorrectness ==
    Filtered =>
        /\ \A i \in 1..Len(df) :
               (\E j \in 1..Len(filtered_df) : filtered_df[j] = df[i])
                   <=> Selected(df[i])
        /\ \A j \in 1..Len(filtered_df) : \E i \in 1..Len(df) : filtered_df[j] = df[i]
        /\ ({} \in {selected_store, selected_store_type, selected_assortment})
               => filtered_df = <<>>

\* a selection keeps the rows of a single day, the one both dates name, and
\* leaves other rows out
C6_Witness ==
    /\ Filtered
    /\ filtered_df # <<>>
    /\ Len(filtered_df) < Len(df)
    /\ selected_date[1] = selected_date[2]
    /\ \E i \in 1..Len(df) : df[i].Date # selected_date[1]

\* C10: in every execution the prepared table is the one the first
\* preparation returned, and filtered_df is exactly the prepared rows the
\* selection picks, in their order and with their lags as prepared.
C10_FilterIsProjection ==
    /\ Prepared => df = firstPrepared
    /\ Filtered =>
           /\ filtered_df = SelectSeq(firstPrepared, Selected)
           /\ \A j \in 1..Len(filtered_df) : \E i \in 1..Len(firstPrepared) :
                  /\ filtered_df[j].Store = firstPrepared[i].Store
                  /\ filtered_df[j].Date = firstPrepared[i].Date
                  /\ filtered_df[j].Sales_lag = firstPrepared[i].Sales_lag

\* a later execution filters some rows out of the table prepared again
C10_Witness ==
    /\ runs >= 2
    /\ preparatorRuns >= 2
    /\ pc = "done"
    /\ filtered_df # <<>>
    /\ Len(filtered_df) < Len(df)
    /\ selected_store # UniqueOf(df, "Store")

====
